---- MODULE Spec2Model ----
(***************************************************************************)
(* PEWMA (Probabilistic EWMA), package pewma, file pewma.go.               *)
(*                                                                         *)
(* The state is the Go heap the package builds: the *PEWMA objects         *)
(* returned by New and Add, and the backing arrays their `captured`        *)
(* slices point into.  One action per exported operation: NewConfig, New,  *)
(* Add, Analyze.                                                           *)
(*                                                                         *)
(* float64 (type Value) is modelled as a fixed-point number with Scale     *)
(* units per 1.0, together with NaN, +Inf and -Inf, which follow the IEEE  *)
(* 754 rules the code relies on (x/0 = Inf, 0/0 = NaN, comparisons with    *)
(* NaN are false, exp(-Inf) = 0).  Every arithmetic result is rounded to   *)
(* the nearest unit; magnitudes above MaxFloat overflow to Inf.  The two   *)
(* zeros are identified: the code only squares or compares the values      *)
(* whose sign of zero could differ.                                        *)
(***************************************************************************)
EXTENDS Integers, Sequences, FiniteSets

(***************************************************************************)
(* Bounds of the model.                                                    *)
(***************************************************************************)
\* number of *PEWMA objects ever allocated (New plus every Add)
MaxProcs == 6
\* number of Add calls whose receiver had already been advanced by an Add
MaxForks == 1

(***************************************************************************)
(* type Value float64                                                      *)
(***************************************************************************)
Scale == 1000
MaxFloat == 500000000

Fin(n) == [k |-> "fin", n |-> n]
NaN == [k |-> "nan", n |-> 0]
Inf(s) == [k |-> "inf", n |-> s]

\* Value(i) / float64(i) for a Go int i
FromInt(i) == Fin(i * Scale)
\* the decimal literal n/d
Dec(n, d) == Fin((n * Scale) \div d)

Zero == Fin(0)
One == FromInt(1)
Two == FromInt(2)

Abs(n) == IF n < 0 THEN -n ELSE n
Sign(n) == IF n < 0 THEN -1 ELSE 1

\* a / b for a >= 0, b > 0, rounded to the nearest integer
RoundDiv(a, b) ==
  LET q == a \div b
      r == a % b
  IN IF r >= b - r THEN q + 1 ELSE q

\* the finite result of magnitude m and sign s, or the infinity it overflows to
Rounded(s, m) == IF m > MaxFloat THEN Inf(s) ELSE Fin(s * m)

FNeg(a) ==
  IF a.k = "nan" THEN NaN
  ELSE IF a.k = "inf" THEN Inf(-a.n)
  ELSE Fin(-a.n)

FAdd(a, b) ==
  IF a.k = "nan" \/ b.k = "nan" THEN NaN
  ELSE IF a.k = "inf" /\ b.k = "inf" THEN (IF a.n = b.n THEN a ELSE NaN)
  ELSE IF a.k = "inf" THEN a
  ELSE IF b.k = "inf" THEN b
  ELSE Rounded(Sign(a.n + b.n), Abs(a.n + b.n))

FSub(a, b) == FAdd(a, FNeg(b))

\* x * y / Scale for magnitudes x, y <= MaxFloat; -1 when above MaxFloat
MulMag(x, y) ==
  LET xh == x \div Scale
      xl == x % Scale
      yh == y \div Scale
      yl == y % Scale
  IN IF xh > 0 /\ yh > 0 /\ xh > (MaxFloat \div Scale) \div yh THEN -1
     ELSE LET m == xh * yh * Scale + xh * yl + xl * yh + RoundDiv(xl * yl, Scale)
          IN IF m > MaxFloat THEN -1 ELSE m

FMul(a, b) ==
  IF a.k = "nan" \/ b.k = "nan" THEN NaN
  ELSE IF a.k = "inf" \/ b.k = "inf" THEN
    (IF a.n = 0 \/ b.n = 0 THEN NaN ELSE Inf(Sign(a.n) * Sign(b.n)))
  ELSE LET m == MulMag(Abs(a.n), Abs(b.n))
           s == Sign(a.n) * Sign(b.n)
       IN IF m < 0 THEN Inf(s) ELSE Fin(s * m)

\* x * Scale / y for magnitudes x <= MaxFloat, 0 < y <= MaxFloat; -1 when above MaxFloat
DivMag(x, y) ==
  LET q == x \div y
      r == x % y
  IN IF q > MaxFloat \div Scale THEN -1
     ELSE LET f == IF r <= 2000000 THEN RoundDiv(r * Scale, y)
                   ELSE RoundDiv(r, (y \div Scale))
              m == q * Scale + f
          IN IF m > MaxFloat THEN -1 ELSE m

FDiv(a, b) ==
  IF a.k = "nan" \/ b.k = "nan" THEN NaN
  ELSE IF a.k = "inf" THEN (IF b.k = "inf" THEN NaN ELSE Inf(a.n * Sign(b.n)))
  ELSE IF b.k = "inf" THEN Zero
  ELSE IF b.n = 0 THEN (IF a.n = 0 THEN NaN ELSE Inf(Sign(a.n)))
  ELSE LET m == DivMag(Abs(a.n), Abs(b.n))
           s == Sign(a.n) * Sign(b.n)
       IN IF m < 0 THEN Inf(s) ELSE Fin(s * m)

\* the order of the non-NaN values
Key(a) == IF a.k = "inf" THEN a.n * (MaxFloat + 1) ELSE a.n

\* a <= b and a < b in Go: false when either side is NaN
FLe(a, b) == a.k # "nan" /\ b.k # "nan" /\ Key(a) <= Key(b)
FLt(a, b) == a.k # "nan" /\ b.k # "nan" /\ Key(a) < Key(b)

\* the largest r in lo..hi-1 with r*r <= m, given lo*lo <= m < hi*hi
RECURSIVE SqrtSearch(_, _, _)
SqrtSearch(m, lo, hi) ==
  IF hi - lo <= 1 THEN lo
  ELSE LET mid == (lo + hi) \div 2
       IN IF mid * mid <= m THEN SqrtSearch(m, mid, hi) ELSE SqrtSearch(m, lo, mid)

\* sqrt(m) rounded to the nearest integer, for 0 <= m <= 2147395600
ISqrt(m) ==
  LET r == SqrtSearch(m, 0, 46341)
  IN IF m - r * r > r THEN r + 1 ELSE r

\* math.Sqrt
FSqrt(a) ==
  IF a.k = "nan" THEN NaN
  ELSE IF a.k = "inf" THEN (IF a.n > 0 THEN a ELSE NaN)
  ELSE IF a.n < 0 THEN NaN
  ELSE IF a.n <= 2000000 THEN Fin(ISqrt(a.n * Scale))
  ELSE Fin(ISqrt(a.n \div Scale) * Scale)

\* math.Exp works on a grid ten times finer than Scale
ExpScale == 10 * Scale
\* e^-1 in units of 1/ExpScale
EInv == 3679

\* the Taylor series of e^(-r/ExpScale), 0 <= r < ExpScale, from term k on
RECURSIVE ExpTaylor(_, _, _, _)
ExpTaylor(r, k, term, acc) ==
  IF term = 0 \/ k > 12 THEN acc
  ELSE LET t == RoundDiv(term * r, k * ExpScale)
       IN ExpTaylor(r, k + 1, t, IF k % 2 = 1 THEN acc - t ELSE acc + t)

\* e^-q for a natural q, in units of 1/ExpScale
RECURSIVE ExpInt(_)
ExpInt(q) ==
  IF q = 0 THEN ExpScale
  ELSE IF q > 12 THEN 0
  ELSE RoundDiv(ExpInt(q - 1) * EInv, ExpScale)

\* e^(-m/Scale) in units of 1/Scale, for m >= 0
ExpNeg(m) ==
  LET q == m \div Scale
      r == (m % Scale) * (ExpScale \div Scale)
      e == RoundDiv(ExpInt(q) * ExpTaylor(r, 1, ExpScale, ExpScale), ExpScale)
  IN IF q > 12 THEN 0 ELSE RoundDiv(e, ExpScale \div Scale)

\* math.Exp
FExp(a) ==
  IF a.k = "nan" THEN NaN
  ELSE IF a.k = "inf" THEN (IF a.n > 0 THEN a ELSE Zero)
  ELSE IF a.n <= 0 THEN Fin(ExpNeg(-a.n))
  ELSE FDiv(One, Fin(ExpNeg(a.n)))

\* math.Pi
Pi == 3142

(***************************************************************************)
(* Inputs.                                                                 *)
(***************************************************************************)
\* trainingPeriod arguments; NewConfig does not validate t
TVals == {-1, 0, 1, 2, 5}
\* alpha0 arguments, on and around the bounds of (0, 1)
Alpha0Vals == {Zero, Dec(1, 2), Dec(9, 10), One, NaN}
\* beta arguments, on and around the bounds of [0, 1)
BetaVals == {Dec(-1, 10), Zero, Dec(3, 10), One}
\* values handed to Add
AddVals == {FromInt(1), FromInt(2)}
\* values handed to Analyze
AnalyzeVals == {FromInt(1), FromInt(1000)}
\* thresholds handed to Analyze
Thresholds == {Dec(1, 100)}
\* `adapt` (NewConfig, line 36) is declared nowhere in the file: the values
\* a package-level float64 of that name may hold
AdaptVals == {Zero, Dec(1, 2)}

(***************************************************************************)
(* State.                                                                  *)
(***************************************************************************)
VARIABLES
  heap,    \* the *PEWMA objects, in allocation order; a pointer is an index
  arrays,  \* the backing arrays allocated by append, in allocation order
  chain,   \* history: chain[p] is the sequence of values added from New up to p
  parent,  \* history: the receiver of the Add that returned p (0 for New)
  last     \* the most recent call, its arguments and what it returned

vars == <<heap, arrays, chain, parent, last>>

\* Config{}
ZeroConfig == [trainingPeriod |-> 0, alpha0Weight |-> Zero, betaWeight |-> Zero]
\* factors{}
ZeroFactors == [s1 |-> Zero, s2 |-> Zero, stdDeviation |-> Zero]
\* []Value{}: no backing array, length and capacity 0
EmptySlice == [arr |-> 0, off |-> 0, len |-> 0, cap |-> 0]

NoCall ==
  [op |-> "none", t |-> 0, alpha0 |-> Zero, beta |-> Zero, err |-> "nil",
   config |-> ZeroConfig, p |-> 0, v |-> Zero, threshold |-> Zero,
   status |-> "none", prev |-> "none", q |-> 0]

Init ==
  /\ heap = <<>>
  /\ arrays = <<>>
  /\ chain = <<>>
  /\ parent = <<>>
  /\ last = NoCall

(***************************************************************************)
(* Config                                                                  *)
(***************************************************************************)
\* what NewConfig returns when the identifier `adapt` holds the value adapt
NewConfigResult(t, alpha0, beta, adapt) ==
  IF FLe(alpha0, Zero) \/ FLe(One, alpha0)
    THEN [config |-> ZeroConfig, err |-> "alpha0 weight is invalid"]
  ELSE IF FLt(beta, Zero) \/ FLe(One, beta)
    THEN [config |-> ZeroConfig, err |-> "beta weight is invalid"]
  ELSE [config |-> [trainingPeriod |-> t, alpha0Weight |-> adapt, betaWeight |-> beta],
        err |-> "nil"]

NewConfig(t, alpha0, beta) ==
  /\ heap = <<>>
  /\ \E adapt \in AdaptVals :
       LET r == NewConfigResult(t, alpha0, beta, adapt)
       IN last' = [NoCall EXCEPT !.op = "NewConfig", !.t = t, !.alpha0 = alpha0,
                                 !.beta = beta, !.err = r.err, !.config = r.config]
  /\ UNCHANGED <<heap, arrays, chain, parent>>

(***************************************************************************)
(* factors                                                                 *)
(***************************************************************************)
square(v) == FMul(v, v)

\* zt with the division guarded against a zero standard deviation
ztGuarded(f, v) ==
  IF f.stdDeviation = Zero THEN Zero ELSE FDiv(FSub(v, f.s1), f.stdDeviation)

zt(f, v) == FDiv(FSub(v, f.s1), f.stdDeviation)

pt(f, v) ==
  LET z == zt(f, v)
  IN FDiv(FExp(FDiv(FNeg(FMul(z, z)), Two)), FSqrt(FMul(Two, Fin(Pi))))

detectAnomaly(f, threshold, v) == FLe(pt(f, v), threshold)

factorsNew(f, a, v) ==
  LET s1 == FAdd(FMul(a, f.s1), FMul(FSub(One, a), v))
      s2 == FAdd(FMul(a, f.s2), FMul(FSub(One, a), square(v)))
      stdDeviation == FSqrt(FSub(s2, square(s1)))
  IN [s1 |-> s1, s2 |-> s2, stdDeviation |-> stdDeviation]

(***************************************************************************)
(* PEWMA                                                                   *)
(***************************************************************************)
New ==
  /\ heap = <<>>
  /\ last.op = "NewConfig"
  /\ last.err = "nil"
  /\ heap' = <<[captured |-> EmptySlice, config |-> last.config, factors |-> ZeroFactors]>>
  /\ chain' = <<(<<>>)>>
  /\ parent' = <<0>>
  /\ last' = [NoCall EXCEPT !.op = "New", !.config = last.config, !.q = 1]
  /\ UNCHANGED arrays

\* the elements a slice holds
Contents(s) == [i \in 1..s.len |-> arrays[s.arr][s.off + i]]

\* alpha with the density taken against factors that have already absorbed v
alphaAbsorbed(p, v) ==
  LET conf == heap[p].config
      l == heap[p].captured.len
      f == factorsNew(heap[p].factors, conf.alpha0Weight, v)
  IN IF l < conf.trainingPeriod
       THEN FromInt(1 - (1 \div (l + 1)))
       ELSE FMul(FSub(One, FMul(conf.betaWeight, pt(f, v))), conf.alpha0Weight)

\* p.alpha(v); 1.0/(l+1) has an int operand, so Go divides as integers
alpha(p, v) ==
  LET conf == heap[p].config
      l == heap[p].captured.len
  IN IF l < conf.trainingPeriod
       THEN FromInt(1 - (1 \div (l + 1)))
       ELSE FMul(FSub(One, FMul(conf.betaWeight, pt(heap[p].factors, v))), conf.alpha0Weight)

\* the capacity the runtime gives the array append allocates for 8-byte elements
GrowCap(oldCap, newLen) == IF newLen > 2 * oldCap THEN newLen ELSE 2 * oldCap

\* append(s, v): the new slice and the arrays after the call
appendValue(s, v) ==
  IF s.len < s.cap
    THEN [slice |-> [s EXCEPT !.len = s.len + 1],
          arrays |-> [arrays EXCEPT ![s.arr][s.off + s.len + 1] = v]]
    ELSE LET c == GrowCap(s.cap, s.len + 1)
             old == Contents(s)
             fresh == [i \in 1..c |-> IF i <= s.len THEN old[i]
                                      ELSE IF i = s.len + 1 THEN v ELSE Zero]
         IN [slice |-> [arr |-> Len(arrays) + 1, off |-> 0, len |-> s.len + 1, cap |-> c],
             arrays |-> Append(arrays, fresh)]

\* pushAndPop that never evicts
pushAndPopNoEvict(p, v) == appendValue(heap[p].captured, v)

\* pushAndPop that evicts the newest value instead of the oldest
pushAndPopNewest(p, v) ==
  LET r == appendValue(heap[p].captured, v)
      newCaptured == r.slice
  IN IF newCaptured.len > heap[p].config.trainingPeriod
       THEN [r EXCEPT !.slice = [newCaptured EXCEPT !.len = newCaptured.len - 1]]
       ELSE r

\* p.pushAndPop(v): the returned slice and the arrays after the call
pushAndPop(p, v) ==
  LET r == appendValue(heap[p].captured, v)
      newCaptured == r.slice
  IN IF newCaptured.len > heap[p].config.trainingPeriod
       THEN [r EXCEPT !.slice = [arr |-> newCaptured.arr, off |-> newCaptured.off + 1,
                                 len |-> newCaptured.len - 1, cap |-> newCaptured.cap - 1]]
       ELSE r

\* status with the training test off by one
statusOffByOne(p, v, threshold) ==
  IF heap[p].captured.len <= heap[p].config.trainingPeriod THEN "InTraining"
  ELSE IF detectAnomaly(heap[p].factors, threshold, v) THEN "Outlier"
  ELSE "InOrdinary"

\* the Status p.Analyze(v, threshold) returns
status(p, v, threshold) ==
  IF heap[p].captured.len < heap[p].config.trainingPeriod THEN "InTraining"
  ELSE IF detectAnomaly(heap[p].factors, threshold, v) THEN "Outlier"
  ELSE "InOrdinary"

\* Analyze that also captures v in the receiver
AnalyzeIngests(p, v, threshold) ==
  /\ last' = [NoCall EXCEPT !.op = "Analyze", !.p = p, !.v = v, !.threshold = threshold,
                            !.status = status(p, v, threshold),
                            !.prev = IF last.op = "Analyze" /\ last.p = p /\ last.v = v
                                        /\ last.threshold = threshold
                                     THEN last.status ELSE "none"]
  /\ LET r == pushAndPop(p, v)
     IN /\ heap' = [heap EXCEPT ![p].captured = r.slice]
        /\ arrays' = r.arrays
  /\ UNCHANGED <<chain, parent>>

Analyze(p, v, threshold) ==
  /\ last' = [NoCall EXCEPT !.op = "Analyze", !.p = p, !.v = v, !.threshold = threshold,
                            !.status = status(p, v, threshold),
                            !.prev = IF last.op = "Analyze" /\ last.p = p /\ last.v = v
                                        /\ last.threshold = threshold
                                     THEN last.status ELSE "none"]
  /\ UNCHANGED <<heap, arrays, chain, parent>>

Add(p, v) ==
  /\ Len(heap) < MaxProcs
  /\ LET a == alpha(p, v)
         r == pushAndPop(p, v)
     IN /\ heap' = Append(heap, [config |-> heap[p].config,
                                 captured |-> r.slice,
                                 factors |-> factorsNew(heap[p].factors, a, v)])
        /\ arrays' = r.arrays
  /\ chain' = Append(chain, Append(chain[p], v))
  /\ parent' = Append(parent, p)
  /\ last' = [NoCall EXCEPT !.op = "Add", !.p = p, !.v = v, !.q = Len(heap) + 1]

\* the processors that have been the receiver of an Add
Receivers == {parent[i] : i \in 1..Len(parent)} \ {0}
\* the processors no Add has advanced yet
Latest == (1..Len(heap)) \ Receivers
\* Add calls made on a receiver that had been advanced before
Forks == (Len(heap) - 1) - Cardinality(Receivers)

\* A client that threads the processor through: every Add is made on a
\* processor that has not been advanced yet (one stream, strictly sequential).
Next ==
  \/ \E t \in TVals, alpha0 \in Alpha0Vals, beta \in BetaVals : NewConfig(t, alpha0, beta)
  \/ New
  \/ \E p \in Latest, v \in AddVals : Add(p, v)
  \/ \E p \in 1..Len(heap), v \in AnalyzeVals, threshold \in Thresholds : Analyze(p, v, threshold)

Spec == Init /\ [][Next]_vars

\* A client that keeps a processor and advances it again (at most MaxForks times).
NextShared ==
  \/ \E t \in TVals, alpha0 \in Alpha0Vals, beta \in BetaVals : NewConfig(t, alpha0, beta)
  \/ New
  \/ \E p \in 1..Len(heap), v \in AddVals :
       /\ p \in Receivers => Forks < MaxForks
       /\ Add(p, v)

SpecShared == Init /\ [][NextShared]_vars

(***************************************************************************)
(* Properties.                                                             *)
(***************************************************************************)
Procs == 1..Len(heap)
T(p) == heap[p].config.trainingPeriod
\* the number of values ingested on the way from New to p
N(p) == Len(chain[p])
\* what a caller observes of processor p
View(p) == [captured |-> Contents(heap[p].captured), config |-> heap[p].config,
            factors |-> heap[p].factors]
\* values and thresholds no input set above contains
OddVals == {NaN, Inf(1), Zero}

\* C1: NewConfig returns the alpha error when alpha0 <= 0 or alpha0 >= 1, the
\* beta error when alpha0 is valid and beta < 0 or beta >= 1, a nil error when
\* 0 < alpha0 < 1 and 0 <= beta < 1, and no Config returned with a nil error
\* has alpha0 outside (0,1) or beta outside [0,1).
C1_NewConfigValidates ==
  last.op = "NewConfig" =>
    LET alphaOk == FLt(Zero, last.alpha0) /\ FLt(last.alpha0, One)
        betaOk == FLe(Zero, last.beta) /\ FLt(last.beta, One)
    IN /\ (FLe(last.alpha0, Zero) \/ FLe(One, last.alpha0))
            => last.err = "alpha0 weight is invalid"
       /\ (alphaOk /\ (FLt(last.beta, Zero) \/ FLe(One, last.beta)))
            => last.err = "beta weight is invalid"
       /\ (alphaOk /\ betaOk) => last.err = "nil"
       /\ last.err = "nil" =>
            /\ FLt(Zero, last.config.alpha0Weight) /\ FLt(last.config.alpha0Weight, One)
            /\ FLe(Zero, last.config.betaWeight) /\ FLt(last.config.betaWeight, One)

\* C2: with trainingPeriod T >= 1, Analyze returns InTraining exactly while
\* fewer than T values have been ingested, whatever v and threshold are.
C2_InTrainingExactlyDuringWarmUp ==
  /\ (last.op = "Analyze" /\ T(last.p) >= 1)
       => (last.status = "InTraining" <=> N(last.p) < T(last.p))
  /\ \A p \in Procs : T(p) >= 1 =>
       \A v \in AnalyzeVals \cup OddVals, threshold \in Thresholds \cup OddVals :
         status(p, v, threshold) = "InTraining" <=> N(p) < T(p)

\* an Analyze call answered on a processor that has ingested exactly T >= 1 values
C2_Witness ==
  /\ last.op = "Analyze"
  /\ T(last.p) >= 1
  /\ N(last.p) = T(last.p)
  /\ last.status # "InTraining"

\* C3 (as claimed): for every accepted Config, negative trainingPeriod
\* included, the captured history is never longer than trainingPeriod.
C3_HistoryAtMostTrainingPeriod ==
  \A p \in Procs : heap[p].captured.len <= T(p)

\* C3 (amended): the captured history is never longer than trainingPeriod
\* when trainingPeriod >= 0, and is always empty when trainingPeriod < 0.
C3_HistoryAtMostNonNegativeTrainingPeriod ==
  \A p \in Procs :
    /\ T(p) >= 0 => heap[p].captured.len <= T(p)
    /\ T(p) < 0 => heap[p].captured.len = 0

\* a processor that has ingested more than T >= 1 values and holds T of them
C3_Witness ==
  \E p \in Procs : T(p) >= 1 /\ N(p) > T(p) /\ heap[p].captured.len = T(p)

\* C4: after a chain of N > T Add calls from New (T >= 1) the captured history
\* holds exactly the T most recently added values, in the order added.
C4_HistoryIsLastTAdded ==
  \A p \in Procs :
    (T(p) >= 1 /\ N(p) > T(p)) =>
      /\ heap[p].captured.len = T(p)
      /\ \A i \in 1..T(p) : Contents(heap[p].captured)[i] = chain[p][N(p) - T(p) + i]

\* a full window whose evicted value differs from the oldest value kept
C4_Witness ==
  \E p \in Procs :
    /\ T(p) >= 1
    /\ N(p) > T(p)
    /\ chain[p][N(p) - T(p)] # chain[p][N(p) - T(p) + 1]

RECURSIVE SumOf(_)
SumOf(seq) == IF seq = <<>> THEN Zero ELSE FAdd(Head(seq), SumOf(Tail(seq)))
RECURSIVE SumSqOf(_)
SumSqOf(seq) == IF seq = <<>> THEN Zero ELSE FAdd(FMul(Head(seq), Head(seq)), SumSqOf(Tail(seq)))
\* equal up to the rounding of a few operations
Close(a, b) == a.k = "fin" /\ b.k = "fin" /\ Abs(a.n - b.n) <= 3

\* C5: after k <= trainingPeriod Add calls from New, s1 is the arithmetic mean
\* of the k ingested values and s2 the arithmetic mean of their squares.
C5_WarmUpIsCumulativeMean ==
  \A p \in Procs :
    (N(p) >= 1 /\ N(p) <= T(p)) =>
      /\ Close(heap[p].factors.s1, FDiv(SumOf(chain[p]), FromInt(N(p))))
      /\ Close(heap[p].factors.s2, FDiv(SumSqOf(chain[p]), FromInt(N(p))))

\* C6: no call changes what any existing processor holds: Add leaves its
\* receiver and every processor returned by an earlier Add unchanged.
C6_AddIsFunctionalUpdate ==
  [][\A p \in Procs : View(p)' = View(p)]_vars

\* C7: Analyze changes no processor, and repeating a call with the same
\* arguments and no Add in between returns the same Status.
C7_AnalyzeIsPureQuery ==
  [][last'.op = "Analyze" =>
       /\ heap' = heap
       /\ arrays' = arrays
       /\ \A p \in Procs : View(p)' = View(p)
       /\ last'.prev # "none" => last'.prev = last'.status]_vars

\* the second of two Analyze calls with the same arguments on a trained processor
C7_Witness ==
  /\ last.op = "Analyze"
  /\ last.prev # "none"
  /\ N(last.p) >= 1
  /\ heap[last.p].captured.len >= T(last.p)

\* C8: a Config returned with a nil error carries exactly the supplied
\* trainingPeriod, alpha0 and beta.
C8_ConfigCarriesArguments ==
  (last.op = "NewConfig" /\ last.err = "nil") =>
    last.config = [trainingPeriod |-> last.t, alpha0Weight |-> last.alpha0,
                   betaWeight |-> last.beta]

\* p has ingested exactly T(p) >= 1 values, all equal to c
ConstantWindow(p, c) ==
  /\ T(p) >= 1
  /\ N(p) = T(p)
  /\ \A i \in 1..N(p) : chain[p][i] = c

\* C9: after exactly T identical values c, Analyze(c, threshold) with a
\* positive threshold is InOrdinary and Analyze(v, threshold) with v away
\* from c is Outlier.
C9_ConstantWindowClassification ==
  /\ \A c \in AddVals :
       (last.op = "Analyze" /\ ConstantWindow(last.p, c) /\ FLt(Zero, last.threshold)) =>
         /\ last.v = c => last.status = "InOrdinary"
         /\ last.v # c => last.status = "Outlier"
  /\ \A p \in Procs, c \in AddVals, threshold \in Thresholds :
       ConstantWindow(p, c) =>
         /\ status(p, c, threshold) = "InOrdinary"
         /\ status(p, FromInt(1000), threshold) = "Outlier"

\* the scenario of the specification: trainingPeriod 5, beta 0.3, five times
\* the value 1, then Analyze(1000, 0.01)
C9_Witness ==
  /\ last.op = "Analyze"
  /\ T(last.p) = 5
  /\ heap[last.p].config.betaWeight = Dec(3, 10)
  /\ ConstantWindow(last.p, FromInt(1))
  /\ last.v = FromInt(1000)
  /\ last.threshold = Dec(1, 100)
  /\ last.status = "Outlier"

\* the density of v under the factors f
Density(f, v) ==
  LET z == FDiv(FSub(v, f.s1), f.stdDeviation)
  IN FDiv(FExp(FNeg(FDiv(FMul(z, z), Two))), FSqrt(FMul(Two, Fin(Pi))))

\* C10: when the receiver p of an Add is trained, the returned processor's
\* s1 and s2 blend p's factors with v using
\* alpha = (1 - beta * density(v)) * alpha0Weight, density taken under p's factors.
C10_WeightFromPreUpdateState ==
  \A q \in Procs :
    (parent[q] # 0 /\ heap[parent[q]].captured.len >= T(parent[q])) =>
      LET p == parent[q]
          v == chain[q][N(q)]
          f == heap[p].factors
          conf == heap[p].config
          a == FMul(FSub(One, FMul(conf.betaWeight, Density(f, v))), conf.alpha0Weight)
      IN /\ heap[q].factors.s1 = FAdd(FMul(a, f.s1), FMul(FSub(One, a), v))
         /\ heap[q].factors.s2 = FAdd(FMul(a, f.s2), FMul(FSub(One, a), FMul(v, v)))

\* an Add on a trained receiver whose standard deviation is positive and under
\* which the added value has a positive density, so that alpha < alpha0Weight
C10_Witness ==
  \E q \in Procs :
    /\ parent[q] # 0
    /\ heap[parent[q]].captured.len >= T(parent[q])
    /\ FLt(Zero, heap[parent[q]].factors.stdDeviation)
    /\ FLt(Zero, Density(heap[parent[q]].factors, chain[q][N(q)]))
    /\ FLt(Zero, heap[parent[q]].config.betaWeight)
    /\ FLt(Zero, heap[parent[q]].config.alpha0Weight)
====
